---- MODULE Spec2Model ----
\* A model of the incremental enrichment pipeline, enrich_crew in analyzer.py:
\* the dead-letter file and the cache file loaded at start, the loop over the
\* target list (dead-letter skip, cache hit, remote fetch, error
\* classification, cache append, derived directors, staged UPDATE, batched
\* commit), the final commit and the printed summary.
EXTENDS Integers, Sequences, FiniteSets, TLC

\* ------------------------------------------------------------------ bounds
MaxTargets == 2
MaxBatch == 2
MaxInitLines == 1

\* remote (TMDB) ids, one-digit and two-digit ones: as many as a target list
\* can name
TmdbIds == {9 + k : k \in 0..(MaxTargets - 1)}

\* ------------------------------------------------------------------ text
\* Text is a sequence of one-character strings.
Uppercase == <<"A","B","C","D","E","F","G","H","I","J","K","L","M","N","O","P","Q","R","S","T","U","V","W","X","Y","Z">>
Lowercase == <<"a","b","c","d","e","f","g","h","i","j","k","l","m","n","o","p","q","r","s","t","u","v","w","x","y","z">>
Digits == <<"0","1","2","3","4","5","6","7","8","9">>

LowerChar(c) ==
    IF \E k \in 1..Len(Uppercase) : Uppercase[k] = c
    THEN Lowercase[CHOOSE k \in 1..Len(Uppercase) : Uppercase[k] = c]
    ELSE c

\* str.lower()
Lower(s) == [i \in 1..Len(s) |-> LowerChar(s[i])]

\* the Python operator  sub in s  on strings
Contains(s, sub) ==
    \E i \in 0..(Len(s) - Len(sub)) : SubSeq(s, i + 1, i + Len(sub)) = sub

RECURSIVE LStrip(_)
LStrip(s) == IF s # <<>> /\ Head(s) = " " THEN LStrip(Tail(s)) ELSE s

RECURSIVE RStrip(_)
RStrip(s) ==
    IF s # <<>> /\ s[Len(s)] = " " THEN RStrip(SubSeq(s, 1, Len(s) - 1)) ELSE s

\* str.strip()
Strip(s) == RStrip(LStrip(s))

DigitValue(c) == (CHOOSE k \in 1..Len(Digits) : Digits[k] = c) - 1

IsDigit(c) == \E k \in 1..Len(Digits) : Digits[k] = c

RECURSIVE DecimalValue(_)
DecimalValue(s) ==
    IF s = <<>> THEN 0
    ELSE 10 * DecimalValue(SubSeq(s, 1, Len(s) - 1)) + DigitValue(s[Len(s)])

\* int(text): the value of a decimal numeral, ValueError otherwise
ValueError == -1
ParseInt(s) ==
    IF s # <<>> /\ \A i \in 1..Len(s) : IsDigit(s[i])
    THEN DecimalValue(s)
    ELSE ValueError

\* f"{n}" for n >= 0
RECURSIVE FormatInt(_)
FormatInt(n) ==
    IF n < 10 THEN <<Digits[n + 1]>>
    ELSE FormatInt(n \div 10) \o <<Digits[(n % 10) + 1]>>

\* ------------------------------------------------------- error classification
Sig404 == <<"4","0","4"," ","c","l","i","e","n","t"," ","e","r","r","o","r">>
SigCode34 == <<"s","t","a","t","u","s","_","c","o","d","e",":"," ","3","4">>
SigResource == <<"t","h","e"," ","r","e","s","o","u","r","c","e"," ","y","o","u"," ","r","e","q","u","e","s","t","e","d"," ","c","o","u","l","d"," ","n","o","t"," ","b","e"," ","f","o","u","n","d">>

\* is_not_found_error without the .lower() of line 265
IsNotFoundErrorCaseSensitive(status_code, message) ==
    \/ status_code = 404
    \/ status_code = 34
    \/ Contains(message, Sig404)
    \/ Contains(message, SigCode34)
    \/ Contains(message, SigResource)

\* is_not_found_error, from getattr(exc, "status_code", None) and str(exc);
\* status_code 0 stands for None (the exception has no such attribute)
IsNotFoundError(status_code, message) ==
    LET error_message == Lower(message) IN
    \/ status_code = 404
    \/ status_code = 34
    \/ Contains(error_message, Sig404)
    \/ Contains(error_message, SigCode34)
    \/ Contains(error_message, SigResource)

\* ------------------------------------------------------------ remote service
Msg404 == <<"4","0","4"," ","C","l","i","e","n","t"," ","E","r","r","o","r",":"," ","N","o","t"," ","F","o","u","n","d">>
MsgCode34 == <<"S","t","a","t","u","s","_","C","o","d","e",":"," ","3","4">>
MsgResource == <<"T","h","e"," ","r","e","s","o","u","r","c","e"," ","y","o","u"," ","r","e","q","u","e","s","t","e","d"," ","c","o","u","l","d"," ","n","o","t"," ","b","e"," ","f","o","u","n","d",".">>
Msg429 == <<"4","2","9"," ","T","o","o"," ","M","a","n","y"," ","R","e","q","u","e","s","t","s">>
MsgTimeout == <<"t","i","m","e","d"," ","o","u","t">>

\* what tmdb.Movies(id).credits() can raise
Exceptions ==
    { [kind |-> "exc", status_code |-> 404, message |-> <<>>],
      [kind |-> "exc", status_code |-> 34, message |-> MsgTimeout],
      [kind |-> "exc", status_code |-> 0, message |-> Msg404],
      [kind |-> "exc", status_code |-> 0, message |-> MsgCode34],
      [kind |-> "exc", status_code |-> 500, message |-> MsgResource],
      [kind |-> "exc", status_code |-> 429, message |-> Msg429],
      [kind |-> "exc", status_code |-> 0, message |-> MsgTimeout] }

\* what it can return: a credits payload with a director, one whose only
\* director has an empty name, and one without the crew list
PayDirector == [crew |-> <<[job |-> "Director", name |-> "Ford"]>>]
PayNoDirector ==
    [crew |-> << [job |-> "Director", name |-> ""],
                 [job |-> "Producer", name |-> "Wayne"] >>]
PayNoCrew == [cast |-> <<>>]

Payloads == {PayDirector, PayNoDirector, PayNoCrew}

Responses ==
    Exceptions \cup { [kind |-> "ok", payload |-> p] : p \in Payloads }

NoFetch == [kind |-> "none"]

\* ------------------------------------------------------------ derived fields
\* credits_data["crew"] and each entry's "job" and "name" can be read
WellFormed(credits_data) ==
    /\ "crew" \in DOMAIN credits_data
    /\ \A i \in 1..Len(credits_data.crew) :
          {"job", "name"} \subseteq DOMAIN credits_data.crew[i]

\* the role predicate without its test of the name
IsDirectorAnyName(person_entry) == person_entry.job = "Director"

IsDirector(person_entry) ==
    person_entry.job = "Director" /\ person_entry.name # ""

\* the list comprehension of lines 285-289 and 296-300
Directors(credits_data) ==
    LET qualifying == SelectSeq(credits_data.crew, IsDirector)
    IN [i \in 1..Len(qualifying) |->
            [role |-> "director", name |-> qualifying[i].name]]

\* ------------------------------------------------------------------- files
\* One line of the cache file: json tells whether json.loads accepts it, obj
\* is the decoded object.
DumpLine(credit_record) == [json |-> TRUE, obj |-> credit_record]

\* the record written without the "raw" entry of line 290
CreditRecordNoRaw(tmdb_movie_id, credits_response) ==
    [tmdb_id |-> tmdb_movie_id,
     directors |-> Directors(credits_response)]

\* the record of lines 283-291
CreditRecord(tmdb_movie_id, credits_response) ==
    [tmdb_id |-> tmdb_movie_id,
     directors |-> Directors(credits_response),
     raw |-> credits_response]

\* the body of the try of lines 241-243 does not raise
LineLoads(line) == line.json /\ "tmdb_id" \in DOMAIN line.obj

EmptyCache == [t \in {} |-> [tmdb_id |-> t]]

\* the assignment of line 293 (and 243) left out
PutNothing(cache, key, value) == cache

Put(cache, key, value) ==
    [t \in DOMAIN cache \cup {key} |-> IF t = key THEN value ELSE cache[t]]

\* the cache file not read at start
LoadCacheNothing(lines) == EmptyCache

\* lines 237-245: a later line for the same id replaces an earlier one
RECURSIVE LoadCache(_)
LoadCache(lines) ==
    IF lines = <<>> THEN EmptyCache
    ELSE LET before == LoadCache(SubSeq(lines, 1, Len(lines) - 1))
             line == lines[Len(lines)]
         IN IF LineLoads(line) THEN Put(before, line.obj.tmdb_id, line.obj)
            ELSE before

\* lines 233-235: a line that is not blank goes through int()
NonBlank(lines) == {i \in 1..Len(lines) : Strip(lines[i]) # <<>>}

DeadLoadRaises(lines) ==
    \E i \in NonBlank(lines) : ParseInt(Strip(lines[i])) = ValueError

\* the dead-letter file not read at start
LoadDeadNothing(lines) == {}

\* the set replaced, not extended, by every line read
LoadDeadLastLine(lines) ==
    IF NonBlank(lines) = {}
    THEN {}
    ELSE LET n == CHOOSE i \in NonBlank(lines) :
                     \A j \in NonBlank(lines) : j <= i
         IN {ParseInt(Strip(lines[n]))}

LoadDead(lines) == {ParseInt(Strip(lines[i])) : i \in NonBlank(lines)}

\* line 275: f"{tmdb_movie_id}\n"
DeadLine(tmdb_movie_id) == FormatInt(tmdb_movie_id)

\* the test of line 309 made on the count before line 308 raised it
ShouldCommitBeforeCount(count, batch_size) == (count - 1) % batch_size = 0

\* line 309
ShouldCommit(count, batch_size) == count % batch_size = 0

\* the UPDATE statements of one transaction applied to the movies table
RECURSIVE ApplyUpdates(_, _)
ApplyUpdates(table, updates) ==
    IF updates = <<>> THEN table
    ELSE ApplyUpdates(
            [table EXCEPT ![Head(updates)[1]] = Head(updates)[2]],
            Tail(updates))

\* a commit that fails after its first statement took effect
CommitPartly(ok, table, updates) ==
    IF ok \/ updates = <<>> THEN ApplyUpdates(table, updates)
    ELSE ApplyUpdates(table, <<Head(updates)>>)

\* db_connection.commit(): all of the transaction, or an error and none of it
Commit(ok, table, updates) == IF ok THEN ApplyUpdates(table, updates) ELSE table

\* movies.crew before any enrichment
Null == <<>>

NoSummary == [printed |-> FALSE]

\* ------------------------------------------------------------------- state
VARIABLES
    western_movie_pairs,  \* fetch_western_movie_pairs(): <<movies.id, tmdb_id>>
    deadFile, dumpFile,   \* the lines of the two files on disk
    deadBuf, dumpBuf,     \* lines written to the open handles, not yet on disk
    dead_movie_ids, credits_cache, credits_data, update_count,
    request_batch_size,
    idx,                  \* pairs of the target list the loop has finished
    pc,                   \* idle, loop, apply, done, aborted, exit, killed
    db_crew,              \* committed movies.crew, by movies.id
    txn,                  \* UPDATEs executed in the open transaction
    summary,              \* what line 314 printed
    last,                 \* history: the answer of the last remote fetch
    trace,                \* history: per pair of this run, how it was resolved
    prevTrace,            \* history: trace of the run before, if it completed
    commits,              \* history: db_connection.commit() calls that returned
    everOk,               \* history: ids some fetch returned a usable payload for
    lost,                 \* history: pairs fetched but uncommitted at an interruption
    recov                 \* history: lost, of the interrupted run before this one

vars == <<western_movie_pairs, deadFile, dumpFile, deadBuf, dumpBuf,
          dead_movie_ids, credits_cache, credits_data, update_count,
          request_batch_size, idx, pc, db_crew, txn, summary, last,
          trace, prevTrace, commits, everOk, lost, recov>>

\* ------------------------------------------------------------------- inputs
RECURSIVE SeqsUpTo(_, _)
SeqsUpTo(S, n) ==
    IF n = 0 THEN {<<>>}
    ELSE LET shorter == SeqsUpTo(S, n - 1)
         IN shorter \cup {Append(q, x) : q \in shorter, x \in S}

\* the tmdb ids of a list are numbered in the order the list first names them
FirstUse(q) ==
    \A i \in 1..Len(q) :
        \/ q[i] = 9
        \/ \E j \in 1..(i - 1) : q[j] = q[i] - 1

\* target lists: movies.id is the position, tmdb ids may repeat
TargetLists ==
    {[i \in 1..Len(q) |-> <<i, q[i]>>] :
        q \in {r \in SeqsUpTo(TmdbIds, MaxTargets) : FirstUse(r)}}

\* cache lines an earlier run wrote, and damaged ones: text that is not JSON,
\* an object without tmdb_id, an object without raw
InitCacheLines ==
    {DumpLine(CreditRecord(t, p)) : t \in TmdbIds, p \in {PayDirector, PayNoDirector}}
    \cup {[json |-> FALSE, obj |-> [text |-> "{"]],
          [json |-> TRUE, obj |-> [raw |-> PayDirector]]}
    \cup {[json |-> TRUE, obj |-> [tmdb_id |-> t]] : t \in TmdbIds}

DistinctIds(lines) ==
    \A i, j \in 1..Len(lines) :
        (i # j /\ LineLoads(lines[i]) /\ LineLoads(lines[j]))
            => lines[i].obj.tmdb_id # lines[j].obj.tmdb_id

InitCacheFiles ==
    {f \in SeqsUpTo(InitCacheLines, MaxInitLines) : DistinctIds(f)}

\* dead-letter lines an earlier run wrote (here with trailing blanks), a blank
\* line, and a line that is not a number
InitDeadLines ==
    {DeadLine(t) \o <<" ">> : t \in TmdbIds} \cup {<<>>, <<"x">>}

InitDeadFiles == SeqsUpTo(InitDeadLines, MaxInitLines)

Init ==
    /\ western_movie_pairs \in TargetLists
    /\ deadFile \in InitDeadFiles
    /\ dumpFile \in InitCacheFiles
    /\ Len(deadFile) + Len(dumpFile) <= MaxInitLines
    /\ deadBuf = <<>>
    /\ dumpBuf = <<>>
    /\ dead_movie_ids = {}
    /\ credits_cache = EmptyCache
    /\ credits_data = PayNoCrew
    /\ update_count = 0
    /\ request_batch_size = 1
    /\ idx = 0
    /\ pc = "idle"
    /\ db_crew = [i \in 1..Len(western_movie_pairs) |-> Null]
    /\ txn = <<>>
    /\ summary = NoSummary
    /\ last = NoFetch
    /\ trace = <<>>
    /\ prevTrace = <<>>
    /\ commits = 0
    /\ everOk = {}
    /\ lost = {}
    /\ recov = {}

\* ------------------------------------------------------------------ actions
CurLocal == western_movie_pairs[idx + 1][1]
CurTmdb == western_movie_pairs[idx + 1][2]

Stopped == {"idle", "done", "aborted", "exit", "killed"}

Mark(tr, result) == [tr EXCEPT ![Len(tr)].res = result]

\* leaving the with block of lines 248-253: both handles are closed, which
\* writes what they buffered
CloseFiles ==
    /\ dumpFile' = dumpFile \o dumpBuf
    /\ deadFile' = deadFile \o deadBuf
    /\ dumpBuf' = <<>>
    /\ deadBuf' = <<>>

\* pairs whose fetch succeeded in this run and whose UPDATE is not committed
Uncommitted(tr, updates, data) ==
    {i \in 1..Len(tr) :
        /\ tr[i].src = "fetched"
        /\ \/ \E k \in 1..Len(updates) : updates[k][1] = i
           \/ tr[i].res = "pending" /\ Directors(data) # <<>>}

\* an exception leaves the with block: the connection rolls back, the files
\* are closed, line 314 is not reached
Raise(tr, updates) ==
    /\ pc' = "aborted"
    /\ txn' = <<>>
    /\ CloseFiles
    /\ lost' = Uncommitted(tr, updates, credits_data)

\* lines 221-253: the target list, the two loads, the handles opened
Start ==
    /\ pc \in Stopped
    /\ prevTrace' = IF pc = "done" THEN trace ELSE <<>>
    /\ trace' = <<>>
    /\ commits' = 0
    /\ summary' = NoSummary
    /\ last' = NoFetch
    /\ recov' = lost
    /\ lost' = {}
    /\ IF western_movie_pairs = <<>>
       THEN /\ pc' = "exit"
            /\ UNCHANGED <<dead_movie_ids, credits_cache, update_count,
                           request_batch_size, idx>>
       ELSE IF DeadLoadRaises(deadFile)
       THEN /\ pc' = "aborted"
            /\ UNCHANGED <<dead_movie_ids, credits_cache, update_count,
                           request_batch_size, idx>>
       ELSE /\ pc' = "loop"
            /\ dead_movie_ids' = LoadDead(deadFile)
            /\ credits_cache' = LoadCache(dumpFile)
            /\ update_count' = 0
            /\ idx' = 0
            /\ \E b \in 1..MaxBatch : request_batch_size' = b
    /\ UNCHANGED <<western_movie_pairs, deadFile, dumpFile, deadBuf, dumpBuf,
                   credits_data, db_crew, txn, everOk>>

\* lines 255-256
SkipDead ==
    /\ pc = "loop"
    /\ idx < Len(western_movie_pairs)
    /\ CurTmdb \in dead_movie_ids
    /\ idx' = idx + 1
    /\ trace' = Append(trace, [src |-> "dead", res |-> "skip"])
    /\ last' = NoFetch
    /\ UNCHANGED <<western_movie_pairs, deadFile, dumpFile, deadBuf, dumpBuf,
                   dead_movie_ids, credits_cache, credits_data, update_count,
                   request_batch_size, pc, db_crew, txn, summary,
                   prevTrace, commits, everOk, lost, recov>>

\* lines 258-259
CacheHit ==
    /\ pc = "loop"
    /\ idx < Len(western_movie_pairs)
    /\ CurTmdb \notin dead_movie_ids
    /\ CurTmdb \in DOMAIN credits_cache
    /\ last' = NoFetch
    /\ IF "raw" \in DOMAIN credits_cache[CurTmdb]
       THEN /\ credits_data' = credits_cache[CurTmdb].raw
            /\ pc' = "apply"
            /\ trace' = Append(trace, [src |-> "cache", res |-> "pending"])
            /\ UNCHANGED <<deadFile, dumpFile, deadBuf, dumpBuf, txn, lost>>
       ELSE /\ trace' = Append(trace, [src |-> "cache", res |-> "abort"])
            /\ Raise(trace', txn)
            /\ UNCHANGED credits_data
    /\ UNCHANGED <<western_movie_pairs, dead_movie_ids, credits_cache,
                   update_count, request_batch_size, idx, db_crew, summary,
                   prevTrace, commits, everOk, recov>>

\* lines 261-281: credits() raises
FetchRaises ==
    /\ pc = "loop"
    /\ idx < Len(western_movie_pairs)
    /\ CurTmdb \notin dead_movie_ids
    /\ CurTmdb \notin DOMAIN credits_cache
    /\ \E exc \in Exceptions :
        /\ last' = exc
        /\ IF IsNotFoundError(exc.status_code, exc.message)
           THEN /\ deadBuf' = Append(deadBuf, DeadLine(CurTmdb))
                /\ dead_movie_ids' = dead_movie_ids \cup {CurTmdb}
                /\ trace' = Append(trace, [src |-> "notfound", res |-> "skip"])
           ELSE /\ UNCHANGED <<deadBuf, dead_movie_ids>>
                /\ trace' = Append(trace, [src |-> "transient", res |-> "skip"])
    /\ idx' = idx + 1
    /\ UNCHANGED <<western_movie_pairs, deadFile, dumpFile, dumpBuf,
                   credits_cache, credits_data, update_count,
                   request_batch_size, pc, db_crew, txn, summary,
                   prevTrace, commits, everOk, lost, recov>>

\* lines 262 and 283-294: credits() returns
FetchReturns ==
    /\ pc = "loop"
    /\ idx < Len(western_movie_pairs)
    /\ CurTmdb \notin dead_movie_ids
    /\ CurTmdb \notin DOMAIN credits_cache
    /\ \E credits_response \in Payloads :
        /\ last' = [kind |-> "ok", payload |-> credits_response]
        /\ IF WellFormed(credits_response)
           THEN /\ dumpBuf' = Append(dumpBuf,
                        DumpLine(CreditRecord(CurTmdb, credits_response)))
                /\ credits_cache' = Put(credits_cache, CurTmdb,
                        CreditRecord(CurTmdb, credits_response))
                /\ credits_data' = credits_response
                /\ pc' = "apply"
                /\ trace' = Append(trace, [src |-> "fetched", res |-> "pending"])
                /\ everOk' = everOk \cup {CurTmdb}
                /\ UNCHANGED <<deadFile, dumpFile, deadBuf, txn, lost>>
           ELSE /\ trace' = Append(trace, [src |-> "malformed", res |-> "abort"])
                /\ Raise(trace', txn)
                /\ UNCHANGED <<credits_cache, credits_data, everOk>>
    /\ UNCHANGED <<western_movie_pairs, dead_movie_ids, update_count,
                   request_batch_size, idx, db_crew, summary,
                   prevTrace, commits, recov>>

\* lines 296-310
Apply ==
    /\ pc = "apply"
    /\ IF ~WellFormed(credits_data)
       THEN /\ trace' = Mark(trace, "abort")
            /\ Raise(trace', txn)
            /\ UNCHANGED <<update_count, idx, db_crew, commits>>
       ELSE LET directors_list == Directors(credits_data)
                staged == Append(txn, <<CurLocal, directors_list>>)
            IN IF directors_list = <<>>
               THEN /\ trace' = Mark(trace, "noop")
                    /\ idx' = idx + 1
                    /\ pc' = "loop"
                    /\ UNCHANGED <<deadFile, dumpFile, deadBuf, dumpBuf,
                                   update_count, db_crew, txn, commits, lost>>
               ELSE /\ trace' = Mark(trace, "updated")
                    /\ update_count' = update_count + 1
                    /\ IF ShouldCommit(update_count', request_batch_size)
                       THEN \E ok \in BOOLEAN :
                            /\ db_crew' = Commit(ok, db_crew, staged)
                            /\ IF ok
                               THEN /\ txn' = <<>>
                                    /\ commits' = commits + 1
                                    /\ idx' = idx + 1
                                    /\ pc' = "loop"
                                    /\ UNCHANGED <<deadFile, dumpFile, deadBuf,
                                                   dumpBuf, lost>>
                               ELSE /\ Raise(trace', staged)
                                    /\ UNCHANGED <<idx, commits>>
                       ELSE /\ txn' = staged
                            /\ idx' = idx + 1
                            /\ pc' = "loop"
                            /\ UNCHANGED <<deadFile, dumpFile, deadBuf, dumpBuf,
                                           db_crew, commits, lost>>
    /\ last' = NoFetch
    /\ UNCHANGED <<western_movie_pairs, dead_movie_ids, credits_cache,
                   credits_data, request_batch_size, summary, prevTrace,
                   everOk, recov>>

\* the loop left without the commit of line 312
FinishNoCommit ==
    /\ pc = "loop"
    /\ idx = Len(western_movie_pairs)
    /\ CloseFiles
    /\ summary' = [printed |-> TRUE, updated |-> update_count]
    /\ pc' = "done"
    /\ lost' = {}
    /\ last' = NoFetch
    /\ UNCHANGED <<western_movie_pairs, dead_movie_ids, credits_cache,
                   credits_data, update_count, request_batch_size, idx,
                   db_crew, txn, commits, trace, prevTrace, everOk, recov>>

\* lines 312-316: the last commit, the with block left, the summary
Finish ==
    /\ pc = "loop"
    /\ idx = Len(western_movie_pairs)
    /\ \E ok \in BOOLEAN :
        /\ db_crew' = Commit(ok, db_crew, txn)
        /\ IF ok
           THEN /\ txn' = <<>>
                /\ commits' = commits + 1
                /\ CloseFiles
                /\ summary' = [printed |-> TRUE, updated |-> update_count]
                /\ pc' = "done"
                /\ lost' = {}
           ELSE /\ Raise(trace, txn)
                /\ UNCHANGED <<commits, summary>>
    /\ last' = NoFetch
    /\ UNCHANGED <<western_movie_pairs, dead_movie_ids, credits_cache,
                   credits_data, update_count, request_batch_size, idx,
                   trace, prevTrace, everOk, recov>>

\* The process is killed inside the loop: what the handles still buffer
\* (lines 275 and 292 write without flushing) reaches the disk only in part,
\* and the open transaction is gone.
Kill ==
    /\ pc \in {"loop", "apply"}
    /\ \E k \in 0..Len(dumpBuf) : dumpFile' = dumpFile \o SubSeq(dumpBuf, 1, k)
    /\ \E k \in 0..Len(deadBuf) : deadFile' = deadFile \o SubSeq(deadBuf, 1, k)
    /\ dumpBuf' = <<>>
    /\ deadBuf' = <<>>
    /\ txn' = <<>>
    /\ pc' = "killed"
    /\ lost' = Uncommitted(trace, txn, credits_data)
    /\ last' = NoFetch
    /\ UNCHANGED <<western_movie_pairs, dead_movie_ids, credits_cache,
                   credits_data, update_count, request_batch_size, idx,
                   db_crew, summary, trace, prevTrace, commits, everOk,
                   recov>>

Next ==
    \/ Start
    \/ SkipDead
    \/ CacheHit
    \/ FetchRaises
    \/ FetchReturns
    \/ Apply
    \/ Finish

Spec == Init /\ [][Next]_vars

NextCrash == Next \/ Kill

SpecCrash == Init /\ [][NextCrash]_vars

\* --------------------------------------------------------------- properties
\* a remote fetch was issued for the pair
FetchSrcs == {"fetched", "notfound", "transient", "malformed"}

LastOf(tr) == tr[Len(tr)]

UpdatedPairs(tr) == {i \in 1..Len(tr) : tr[i].res = "updated"}
NoOpPairs(tr) == {i \in 1..Len(tr) : tr[i].res = "noop"}

\* the lines of a file, on disk or still in its handle
DumpLines == dumpFile \o dumpBuf
DeadLines == deadFile \o deadBuf

\* C1: when a run follows a completed run over the same files, it issues a
\* remote fetch only for pairs the earlier run left in FetchFailed(Transient):
\* none for a pair that was fetched, dead-lettered, dead-skipped or cached.
C1_Resumable ==
    prevTrace # <<>> =>
        \A i \in 1..Len(trace) :
            trace[i].src \in FetchSrcs => prevTrace[i].src = "transient"

C1_Witness ==
    /\ pc = "done"
    /\ Len(prevTrace) = 2
    /\ prevTrace[1].src = "fetched" /\ trace[1].src = "cache"
    /\ prevTrace[2].src = "transient" /\ trace[2].src \in FetchSrcs

CeilDiv(a, b) == (a + b - 1) \div b

\* C2 as claimed: a complete run performs ceil(U / B) commits, U the number
\* of pairs that staged an update.
C2_CeilCommits ==
    pc = "done" =>
        commits = CeilDiv(Cardinality(UpdatedPairs(trace)), request_batch_size)

\* C2, amended: a complete run performs floor(U / B) + 1 commit calls, one at
\* every B-th staged update and one unconditional at the end.
C2_Commits ==
    pc = "done" =>
        commits = (Cardinality(UpdatedPairs(trace)) \div request_batch_size) + 1

C2_Witness ==
    /\ pc = "done"
    /\ request_batch_size = 2
    /\ Cardinality(UpdatedPairs(trace)) = 2
    /\ commits = 2

\* a dead-letter line that is a textual integer
IsIntLine(line) == ParseInt(Strip(line)) # ValueError

\* a cache line that is a record: remote id, derived fields and raw payload
IsRecordLine(line) ==
    line.json /\ {"tmdb_id", "directors", "raw"} \subseteq DOMAIN line.obj

\* a cache line that at least decodes to an object naming a remote id
HasId(line) == line.json /\ "tmdb_id" \in DOMAIN line.obj

\* C3: at the start of a run every malformed line of the two files is
\* skipped, every well-formed line is loaded, and the run goes on to the
\* target list.
C3_TolerantLoad ==
    [][(pc \in Stopped /\ western_movie_pairs # <<>>) =>
        /\ pc' = "loop"
        /\ dead_movie_ids' =
              {ParseInt(Strip(deadFile[i])) :
                  i \in {j \in 1..Len(deadFile) : IsIntLine(deadFile[j])}}
        /\ {dumpFile[i].obj.tmdb_id :
                i \in {j \in 1..Len(dumpFile) : IsRecordLine(dumpFile[j])}}
              \subseteq DOMAIN credits_cache'
        /\ DOMAIN credits_cache' \subseteq
              {dumpFile[i].obj.tmdb_id :
                i \in {j \in 1..Len(dumpFile) : HasId(dumpFile[j])}}
      ]_vars

\* the fetch of this step failed other than by NotFound: an error that is not
\* classified not-found, or a response without a readable crew list
TransientFailure(answer) ==
    \/ /\ answer.kind = "exc"
       /\ ~IsNotFoundError(answer.status_code, answer.message)
    \/ /\ answer.kind = "ok"
       /\ ~WellFormed(answer.payload)

\* C4: a fetch that fails other than by NotFound writes nothing to the cache,
\* nothing to the dead-letter set, stages no update, and the run continues
\* with the next pair.
C4_TransientContinues ==
    [][TransientFailure(last') =>
        /\ DumpLines' = DumpLines
        /\ DeadLines' = DeadLines
        /\ dead_movie_ids' = dead_movie_ids
        /\ DOMAIN credits_cache' = DOMAIN credits_cache
        /\ txn' = txn
        /\ update_count' = update_count
        /\ pc' = "loop"
        /\ idx' = idx + 1
      ]_vars

DeadLettered ==
    /\ deadBuf' = Append(deadBuf, FormatInt(CurTmdb))
    /\ dead_movie_ids' = dead_movie_ids \cup {CurTmdb}
    /\ LastOf(trace').src = "notfound"

NotDeadLettered ==
    /\ deadBuf' = deadBuf
    /\ dead_movie_ids' = dead_movie_ids
    /\ LastOf(trace').src = "transient"

\* C5 as claimed: a fetch error is dead-lettered exactly when it carries a
\* not-found status code.
C5_StatusOnly ==
    [][last'.kind = "exc" =>
        IF last'.status_code \in {404, 34} THEN DeadLettered
        ELSE NotDeadLettered
      ]_vars

HasSignature(message) ==
    \E sig \in {Sig404, SigCode34, SigResource} : Contains(Lower(message), sig)

\* C5, amended: a fetch error is dead-lettered (file and in-memory set)
\* exactly when it carries status code 404 or 34 or its lower-cased text
\* contains one of the three not-found signatures; any other fetch error
\* leaves the pair FetchFailed(Transient) and adds nothing to the set.
C5_Classification ==
    [][last'.kind = "exc" =>
        IF last'.status_code \in {404, 34} \/ HasSignature(last'.message)
        THEN DeadLettered
        ELSE NotDeadLettered
      ]_vars

C5_Witness ==
    /\ last.kind = "exc"
    /\ last.status_code = 0
    /\ last.message = Msg404
    /\ LastOf(trace).src = "notfound"
    /\ western_movie_pairs[idx][2] \in dead_movie_ids

\* ids named by the dead-letter lines that are textual integers
DeadIdsIn(lines) ==
    {ParseInt(Strip(lines[i])) : i \in 1..Len(lines)} \ {ValueError}

Running == {"loop", "apply"}

IsPrefix(s, t) == Len(s) <= Len(t) /\ SubSeq(t, 1, Len(s)) = s

\* C6: an id in the Dead-Letter Set, loaded or added in this run, stays in it,
\* and no step of this run or of a later run issues a remote fetch for it:
\* the file only grows, the loaded set only grows during a run, a run starts
\* with every id the file names and leaves every id it knew in the file, and
\* a fetch is never for an id of the file or of the loaded set.
C6_DeadLetterMonotone ==
    [][/\ IsPrefix(DeadLines, DeadLines')
       /\ (pc \in Running /\ pc' \in Running) =>
              dead_movie_ids \subseteq dead_movie_ids'
       /\ (pc \in Stopped /\ pc' \in Running) =>
              DeadIdsIn(deadFile) \subseteq dead_movie_ids'
       /\ (pc \in Running /\ pc' \in Stopped) =>
              dead_movie_ids \subseteq DeadIdsIn(deadFile')
       /\ last'.kind # "none" =>
              CurTmdb \notin (dead_movie_ids \cup DeadIdsIn(DeadLines))
      ]_vars

C6_Witness ==
    /\ pc = "done"
    /\ \E i \in 1..Len(trace) :
          /\ prevTrace # <<>>
          /\ prevTrace[i].src = "notfound"
          /\ trace[i].src = "dead"
          /\ western_movie_pairs[i][2] \in DeadIdsIn(deadFile)

\* cache records, on disk or in the handle, that name the id
RecordsFor(t) ==
    Cardinality({i \in 1..Len(DumpLines) :
                    HasId(DumpLines[i]) /\ DumpLines[i].obj.tmdb_id = t})

\* C7: the cache file holds exactly one record for every id that was ever
\* fetched successfully, and never two records for one id, also when the
\* target list names an id twice.
C7_OneRecordPerId ==
    /\ \A t \in TmdbIds : RecordsFor(t) <= 1
    /\ \A t \in everOk : RecordsFor(t) = 1
    /\ pc \in Stopped => dumpBuf = <<>>

C7_Witness ==
    /\ pc = "done"
    /\ Len(western_movie_pairs) = 2
    /\ western_movie_pairs[1][2] = western_movie_pairs[2][2]
    /\ western_movie_pairs[1][2] \in everOk
    /\ prevTrace # <<>>
    /\ prevTrace[1].src = "fetched"
    /\ prevTrace[2].src = "cache"

\* the appends of the pairs the loop had finished are on disk
AppendsOnDisk ==
    \A i \in 1..idx :
        /\ trace[i].src = "fetched" =>
              \E k \in 1..Len(dumpFile) :
                  /\ HasId(dumpFile[k])
                  /\ dumpFile[k].obj.tmdb_id = western_movie_pairs[i][2]
        /\ trace[i].src = "notfound" =>
              western_movie_pairs[i][2] \in DeadIdsIn(deadFile)

\* after an interruption, the pairs fetched before it are served from the
\* cache and, once the run completes, their updates are committed
Recovered ==
    \A i \in recov :
        /\ i <= Len(trace) => trace[i].src = "cache"
        /\ pc = "done" => db_crew[i] # Null

\* C8: after an interruption between an entity's successful fetch and the
\* commit of its update, the next run finds the entity in the cache, does
\* not fetch it again and, when it completes, has committed its update; and
\* at the interruption the cache and dead-letter appends of every pair the
\* loop had finished are on disk.
C8_CrashRecovery ==
    /\ Recovered
    /\ pc \in {"killed", "aborted"} => AppendsOnDisk

\* the UPDATEs a flush in this step has to commit: the open transaction and,
\* in the step of lines 296-310, the update of the pair at hand
Staged ==
    IF pc = "apply" /\ LastOf(trace').res = "updated"
    THEN Append(txn, <<CurLocal, Directors(credits_data)>>)
    ELSE txn

FlushAttempted ==
    \/ pc = "apply" /\ LastOf(trace').res = "updated"
                    /\ update_count' % request_batch_size = 0
    \/ pc = "loop" /\ idx = Len(western_movie_pairs) /\ pc' # "loop"

\* C9: a flush commits every update staged since the flush before, or none;
\* when it fails the run stops there with the error: nothing of the batch is
\* in the store, no further pair is processed, no summary is printed, and
\* only a new invocation follows.
C9_AtomicLoud ==
    [][/\ db_crew' # db_crew =>
            /\ FlushAttempted
            /\ commits' = commits + 1
            /\ txn' = <<>>
            /\ \A k \in 1..Len(Staged) : db_crew'[Staged[k][1]] = Staged[k][2]
            /\ \A i \in DOMAIN db_crew :
                  (\A k \in 1..Len(Staged) : Staged[k][1] # i)
                      => db_crew'[i] = db_crew[i]
       /\ (FlushAttempted /\ commits' = commits) =>
            /\ pc' = "aborted"
            /\ db_crew' = db_crew
            /\ txn' = <<>>
            /\ idx' = idx
            /\ summary' = NoSummary
       /\ pc = "aborted" => (pc' \in {"loop", "aborted"} /\ trace' = <<>>)
      ]_vars

C9_Witness ==
    /\ pc = "aborted"
    /\ Len(trace) = 2
    /\ trace[1].res = "updated"
    /\ trace[2].res = "updated"
    /\ db_crew = [i \in 1..2 |-> Null]
    /\ summary = NoSummary

\* the raw metadata has no contributor that qualifies
ZeroQualifying(raw) ==
    \A k \in 1..Len(raw.crew) :
        raw.crew[k].job # "Director" \/ raw.crew[k].name = ""

\* pairs of this run that were resolved to raw metadata, and that metadata
Resolved ==
    {i \in 1..Len(trace) :
        trace[i].src \in {"cache", "fetched"} /\ trace[i].res \in {"noop", "updated"}}

RawOf(i) == credits_cache[western_movie_pairs[i][2]].raw

NoUpdateFor(i) ==
    /\ trace[i].res = "noop"
    /\ \A k \in 1..Len(txn) : txn[k][1] # i
    /\ db_crew[i] = Null

UpdateCountExact ==
    /\ pc \in Running => update_count = Cardinality(UpdatedPairs(trace))
    /\ pc = "done" => summary.updated = Cardinality(UpdatedPairs(trace))

C12_FinalFlush ==
    pc = "done" =>
        /\ txn = <<>>
        /\ \A i \in UpdatedPairs(trace) : db_crew[i] = Directors(RawOf(i))
        /\ summary.printed
        /\ summary.updated = Cardinality(UpdatedPairs(trace))

\* a run under the largest batch size whose updates leave a remainder of one
\* after the last batch commit: that update reaches the store by line 312
C12_Witness ==
    /\ pc = "done"
    /\ request_batch_size = MaxBatch
    /\ Cardinality(UpdatedPairs(trace)) % request_batch_size = 1
    /\ \A i \in UpdatedPairs(trace) : db_crew[i] # Null
    /\ summary.updated = Cardinality(UpdatedPairs(trace))
    /\ commits = (summary.updated \div request_batch_size) + 1

\* the ids the Cache Store names: in the file, in its handle and, while a
\* run is on, in the loaded map
CacheIdsOf(lines, running, cache) ==
    {lines[i].obj.tmdb_id : i \in {j \in 1..Len(lines) : HasId(lines[j])}}
    \cup (IF running THEN DOMAIN cache ELSE {})

\* the ids the Dead-Letter Set names: in the file, in its handle and, while a
\* run is on, in the loaded set
DeadIdsOf(lines, running, dead) ==
    DeadIdsIn(lines) \cup (IF running THEN dead ELSE {})

CacheIds == CacheIdsOf(DumpLines, pc \in Running, credits_cache)

DeadIds == DeadIdsOf(DeadLines, pc \in Running, dead_movie_ids)

\* no id is named by both, before the step and after it
Disjoint == CacheIds \cap DeadIds = {}

DisjointNext ==
    CacheIdsOf(DumpLines', pc' \in Running, credits_cache')
        \cap DeadIdsOf(DeadLines', pc' \in Running, dead_movie_ids') = {}

\* C13: the Cache Store and the Dead-Letter Set stay disjoint through starts
\* and fetches of any outcome when they were disjoint before, and each grows
\* only by the one fetch of that outcome: a cache record is appended only by a
\* fetch that returned, a dead-letter line only by a fetch that failed as
\* not found, in both cases for the id fetched and only when neither store
\* named that id before, so no id is recorded by a second fetch.
C13_DisjointOneFetch ==
    [][/\ (pc \in Stopped \/ last'.kind # "none") => (Disjoint => DisjointNext)
       /\ DumpLines' # DumpLines =>
              /\ last'.kind = "ok"
              /\ WellFormed(last'.payload)
              /\ CurTmdb \notin CacheIds
              /\ CurTmdb \notin DeadIds
              /\ DumpLines' =
                    Append(DumpLines,
                           DumpLine(CreditRecord(CurTmdb, last'.payload)))
              /\ DeadLines' = DeadLines
       /\ DeadLines' # DeadLines =>
              /\ last'.kind = "exc"
              /\ IsNotFoundError(last'.status_code, last'.message)
              /\ CurTmdb \notin CacheIds
              /\ CurTmdb \notin DeadIds
              /\ DeadLines' = Append(DeadLines, FormatInt(CurTmdb))
              /\ DumpLines' = DumpLines
      ]_vars

\* a run that cached one id and dead-lettered another, and the next run over
\* the same files, which fetched neither again
C13_Witness ==
    /\ pc = "done"
    /\ Len(prevTrace) = 2
    /\ prevTrace[1].src = "fetched"
    /\ prevTrace[2].src = "notfound"
    /\ trace[1].src = "cache"
    /\ trace[2].src = "dead"
    /\ western_movie_pairs[1][2] \in CacheIds \ DeadIds
    /\ western_movie_pairs[2][2] \in DeadIds \ CacheIds

====
